---- MODULE Spec2Model ----
(***************************************************************************)
(* Speed estimation and violation tracking of                              *)
(* TCS/examples/speed_estimation/ultralytics_example.py:                   *)
(* the UltimateTrafficAnalyzer (ledger, violation state machine) and the   *)
(* per-frame loop of main() (history buffers, speed estimate, noise gate). *)
(*                                                                         *)
(* Speeds are Python floats in the source.  They are modelled as exact     *)
(* rationals <<numerator, denominator>> in lowest terms, denominator > 0.  *)
(* Timestamps are ISO strings in the source; they are modelled as the      *)
(* pair <<minutes, seconds>> that isoformat() writes and fromisoformat()   *)
(* reads back.                                                             *)
(***************************************************************************)
EXTENDS Integers, Sequences, FiniteSets, TLC

VARIABLES
    all_vehicles_seen,       \* self.all_vehicles_seen: set of key strings
    zone_vehicles_seen,      \* self.zone_vehicles_seen: set of key strings
    violations,              \* self.violations: defaultdict(list), key -> records
    vehicle_states,          \* self.vehicle_states: dict, key -> state
    unique_vehicle_classes,  \* self.unique_vehicle_classes: Counter, class -> n
    alerts,                  \* the messages handed to send_sms, in order
    coordinates,             \* main: defaultdict(deque(maxlen=fps)), track id -> ys
    fps,                     \* main: video_info.fps
    frame_num,               \* main: index of the frame being processed
    now,                     \* the wall clock read by datetime.datetime.now()
    pc,                      \* position of the program
    frame_ids,               \* main: track ids already iterated in this frame
    call,                    \* the operation performed by the last step, with its inputs
    ret,                     \* what that operation returned
    measured,                \* history: key -> measured speeds of its emitted records
    sighted,                 \* history: <<track id, class, in_zone>> -> 1 (passed to record_vehicle once) or 2 (more than once)
    samples,                 \* history: track id -> origin of each buffered sample
    calls,                   \* number of operations performed so far
    view_transformer_m,      \* ViewTransformer.m: the 3x3 perspective matrix
    disk                     \* the report files present in the working directory

vars == <<all_vehicles_seen, zone_vehicles_seen, violations, vehicle_states,
          unique_vehicle_classes, alerts, coordinates, fps, frame_num, now,
          pc, frame_ids, call, ret, measured, sighted, samples, calls,
          view_transformer_m, disk>>

analyzer_vars == <<all_vehicles_seen, zone_vehicles_seen, violations,
                   vehicle_states, unique_vehicle_classes, alerts, measured,
                   sighted>>

main_vars == <<coordinates, fps, frame_num, now, frame_ids, samples,
               view_transformer_m, disk>>

(***************************************************************************)
(* Program constants                                                       *)
(***************************************************************************)
SPEED_LIMIT == 100

\* the road zone in the picture, and the rectangle it is rectified to
SOURCE == <<<<1252, 787>>, <<2298, 803>>, <<5039, 2159>>, <<-550, 2159>>>>

TARGET_WIDTH == 25

TARGET_HEIGHT == 250

TARGET ==
    <<<<0, 0>>, <<TARGET_WIDTH - 1, 0>>,
      <<TARGET_WIDTH - 1, TARGET_HEIGHT - 1>>, <<0, TARGET_HEIGHT - 1>>>>

NoiseFloor == 5

SpeedDiffThreshold == 10

TimeDiffThreshold == 5

MainNoiseGate == 5

\* Python's None as a track id: a value no tracker assigns
None == 0

\* a function that returned None, where it returns a record r as <<r>>
NoRecord == <<>>

\* no view transformer is represented: the analyzer is driven alone, or the
\* rectified coordinate of each detection is taken as the loop's input
NoMatrix == <<>>

(***************************************************************************)
(* Bounds of the model and the inputs that are enumerated                  *)
(***************************************************************************)
MaxCalls == 4

\* Frame rate of the video of the main scenario, and the length of its stream
FPS == 3

MaxFrames == 4

\* Track 2 crosses the zone quickly: the number of frames it is detected in
ShortTrack == 2

\* Longest array of points handed to transform_points
MaxPoints == 4

\* Frame rate and stream length of the slow-vehicle scenario
SlowFps == 25

SlowFrames == 18

Ids == {1, 2}

Classes == {"car", "truck"}

\* The <<track id, class>> pairs offered to the analyzer: one track id seen
\* under two classes, a second track id, and a detection without a track id
Vehicles == {<<1, "car">>, <<1, "truck">>, <<2, "car">>, <<None, "car">>}

\* The <<measured speed, clock reading in seconds>> pairs offered to
\* record_violation, with T = 58 s: (4.5, T) (5, T) (80, T) (91, T+1)
\* (89, T+1) (90, T+5) (82, T+6) (100.5, T+1)
Measurements ==
    {<<<<9, 2>>, 58>>, <<<<5, 1>>, 58>>, <<<<80, 1>>, 58>>, <<<<91, 1>>, 59>>,
     <<<<89, 1>>, 59>>, <<<<90, 1>>, 63>>, <<<<82, 1>>, 64>>,
     <<<<201, 2>>, 59>>}

\* Track 1 is offered with all of them, track 2 and the detection without a
\* track id with two
MeasurementsOf(v) ==
    IF v[1] = 1 THEN Measurements
    ELSE {<<<<80, 1>>, 58>>, <<<<201, 2>>, 59>>}

\* Rectified y coordinates (points[i][1], integers) of the main scenario
Ys == {0, 28}

\* The wall clock, in seconds, when the analyzer of main() is constructed
StartClock == 58

\* Seconds of wall clock that pass while one frame is processed
ClockSteps == {2}

(***************************************************************************)
(* Float arithmetic on exact rationals                                     *)
(***************************************************************************)
Abs(x) == IF x < 0 THEN -x ELSE x

RECURSIVE GCD(_, _)
GCD(a, b) == IF b = 0 THEN a ELSE GCD(b, a % b)

Rat(n, d) ==
    LET g == GCD(Abs(n), d) IN <<n \div g, d \div g>>

FromInt(n) == <<n, 1>>

RLess(a, b) == a[1] * b[2] < b[1] * a[2]

RAbsDiff(a, b) == Rat(Abs(a[1] * b[2] - b[1] * a[2]), a[2] * b[2])

RMaxLatest(a, b) == b

\* max(a, b) of Python: b only when b > a
RMax(a, b) == IF RLess(a, b) THEN b ELSE a

TruncUp(a) == (a[1] + a[2] - 1) \div a[2]

\* int(x): truncation toward zero
Trunc(a) ==
    IF a[1] >= 0 THEN a[1] \div a[2] ELSE -((-a[1]) \div a[2])

(***************************************************************************)
(* Exact integers of any size: <<sign, magnitude>>, the magnitude a        *)
(* sequence of limbs, lowest first, without a leading zero limb            *)
(***************************************************************************)
LimbBase == 10000

RECURSIVE MagTrim(_)
MagTrim(a) ==
    IF a = <<>> THEN <<>>
    ELSE IF a[Len(a)] = 0 THEN MagTrim(SubSeq(a, 1, Len(a) - 1))
    ELSE a

RECURSIVE MagOfNat(_)
MagOfNat(n) ==
    IF n = 0 THEN <<>> ELSE <<n % LimbBase>> \o MagOfNat(n \div LimbBase)

RECURSIVE MagAdd(_, _, _)
MagAdd(a, b, carry) ==
    IF a = <<>> /\ b = <<>> THEN MagOfNat(carry)
    ELSE LET x == (IF a = <<>> THEN 0 ELSE a[1])
                  + (IF b = <<>> THEN 0 ELSE b[1]) + carry
         IN <<x % LimbBase>>
            \o MagAdd(IF a = <<>> THEN a ELSE Tail(a),
                      IF b = <<>> THEN b ELSE Tail(b), x \div LimbBase)

RECURSIVE MagSubLimbs(_, _, _)
\* a - b - borrow, limb by limb, for a >= b
MagSubLimbs(a, b, borrow) ==
    IF a = <<>> THEN <<>>
    ELSE LET x == a[1] - (IF b = <<>> THEN 0 ELSE b[1]) - borrow
         IN <<IF x < 0 THEN x + LimbBase ELSE x>>
            \o MagSubLimbs(Tail(a), IF b = <<>> THEN b ELSE Tail(b),
                           IF x < 0 THEN 1 ELSE 0)

MagSub(a, b) == MagTrim(MagSubLimbs(a, b, 0))

RECURSIVE MagLess(_, _)
MagLess(a, b) ==
    IF Len(a) # Len(b) THEN Len(a) < Len(b)
    ELSE IF a = <<>> THEN FALSE
    ELSE IF a[Len(a)] # b[Len(b)] THEN a[Len(a)] < b[Len(b)]
    ELSE MagLess(SubSeq(a, 1, Len(a) - 1), SubSeq(b, 1, Len(b) - 1))

RECURSIVE MagScale(_, _, _)
\* a * d + carry for one limb d
MagScale(a, d, carry) ==
    IF a = <<>> THEN MagOfNat(carry)
    ELSE LET x == a[1] * d + carry
         IN <<x % LimbBase>> \o MagScale(Tail(a), d, x \div LimbBase)

RECURSIVE MagMul(_, _)
MagMul(a, b) ==
    IF a = <<>> THEN <<>>
    ELSE LET rest == MagMul(Tail(a), b)
         IN MagAdd(MagTrim(MagScale(b, a[1], 0)),
                   IF rest = <<>> THEN rest ELSE <<0>> \o rest, 0)

Big(n) ==
    IF n = 0 THEN <<0, <<>>>>
    ELSE <<IF n > 0 THEN 1 ELSE -1, MagOfNat(Abs(n))>>

BigNeg(a) == <<-a[1], a[2]>>

BigAdd(a, b) ==
    IF a[1] = 0 THEN b
    ELSE IF b[1] = 0 THEN a
    ELSE IF a[1] = b[1] THEN <<a[1], MagAdd(a[2], b[2], 0)>>
    ELSE IF a[2] = b[2] THEN Big(0)
    ELSE IF MagLess(a[2], b[2]) THEN <<b[1], MagSub(b[2], a[2])>>
    ELSE <<a[1], MagSub(a[2], b[2])>>

BigSub(a, b) == BigAdd(a, BigNeg(b))

BigMul(a, b) ==
    IF a[1] = 0 \/ b[1] = 0 THEN Big(0)
    ELSE <<a[1] * b[1], MagMul(a[2], b[2])>>

\* a quotient n / d of exact integers, d > 0, not reduced
BigRat(n, d) == IF d[1] < 0 THEN <<BigNeg(n), BigNeg(d)>> ELSE <<n, d>>

\* equality of two such quotients
BigRatEq(a, b) == BigMul(a[1], b[2]) = BigMul(b[1], a[2])

(***************************************************************************)
(* Timestamps: datetime.isoformat() and datetime.fromisoformat()           *)
(***************************************************************************)
isoformat(t) == <<t \div 60, t % 60>>

fromisoformat(s) == s[1] * 60 + s[2]

total_seconds(later, earlier) == fromisoformat(later) - fromisoformat(earlier)

(***************************************************************************)
(* dict / defaultdict / Counter helpers                                    *)
(***************************************************************************)
Put(d, k, v) == [x \in DOMAIN d \cup {k} |-> IF x = k THEN v ELSE d[x]]

ListOfFresh(d, k) == <<>>

ListOf(d, k) == IF k \in DOMAIN d THEN d[k] ELSE <<>>

CounterGet(c, k) == IF k \in DOMAIN c THEN c[k] ELSE 0

EmptyDict == [x \in {} |-> 0]

(***************************************************************************)
(* UltimateTrafficAnalyzer                                                 *)
(***************************************************************************)
VehicleKeyIdOnly(tracker_id, class_name) == ToString(tracker_id)

VehicleKey(tracker_id, class_name) ==
    ToString(tracker_id) \o "_" \o class_name

IsNewVehicleAlways(vehicle_key, seen) == TRUE

IsNewVehicle(vehicle_key, seen) == vehicle_key \notin seen

record_vehicle_either_set(tracker_id, class_name, in_zone) ==
    IF tracker_id = None
    THEN UNCHANGED <<all_vehicles_seen, zone_vehicles_seen,
                     unique_vehicle_classes, sighted>>
    ELSE LET vehicle_key == VehicleKey(tracker_id, class_name) IN
         /\ all_vehicles_seen' =
                IF in_zone THEN all_vehicles_seen
                ELSE all_vehicles_seen \cup {vehicle_key}
         /\ unique_vehicle_classes' =
                IF IsNewVehicle(vehicle_key, all_vehicles_seen)
                THEN Put(unique_vehicle_classes, class_name,
                         CounterGet(unique_vehicle_classes, class_name) + 1)
                ELSE unique_vehicle_classes
         /\ zone_vehicles_seen' =
                IF in_zone THEN zone_vehicles_seen \cup {vehicle_key}
                ELSE zone_vehicles_seen
         /\ sighted' =
                Put(sighted, <<tracker_id, class_name, in_zone>>,
                    IF <<tracker_id, class_name, in_zone>> \in DOMAIN sighted
                    THEN 2 ELSE 1)

\* record_vehicle(tracker_id, class_name, in_zone)
record_vehicle(tracker_id, class_name, in_zone) ==
    IF tracker_id = None
    THEN UNCHANGED <<all_vehicles_seen, zone_vehicles_seen,
                     unique_vehicle_classes, sighted>>
    ELSE LET vehicle_key == VehicleKey(tracker_id, class_name) IN
         /\ all_vehicles_seen' = all_vehicles_seen \cup {vehicle_key}
         /\ unique_vehicle_classes' =
                IF IsNewVehicle(vehicle_key, all_vehicles_seen)
                THEN Put(unique_vehicle_classes, class_name,
                         CounterGet(unique_vehicle_classes, class_name) + 1)
                ELSE unique_vehicle_classes
         /\ zone_vehicles_seen' =
                IF in_zone THEN zone_vehicles_seen \cup {vehicle_key}
                ELSE zone_vehicles_seen
         /\ sighted' =
                Put(sighted, <<tracker_id, class_name, in_zone>>,
                    IF <<tracker_id, class_name, in_zone>> \in DOMAIN sighted
                    THEN 2 ELSE 1)

RejectedIdOnly(tracker_id, speed_kmh) == tracker_id = None

RejectedSpeedOnly(tracker_id, speed_kmh) ==
    RLess(speed_kmh, FromInt(NoiseFloor))

RejectedAtFloor(tracker_id, speed_kmh) ==
    tracker_id = None \/ ~RLess(FromInt(NoiseFloor), speed_kmh)

\* the early return of record_violation
Rejected(tracker_id, speed_kmh) ==
    tracker_id = None \/ RLess(speed_kmh, FromInt(NoiseFloor))

DebounceSwapped(speed_diff, time_diff) ==
    \/ RLess(FromInt(TimeDiffThreshold), speed_diff)
    \/ time_diff > SpeedDiffThreshold

DebounceInclusive(speed_diff, time_diff) ==
    \/ ~RLess(speed_diff, FromInt(SpeedDiffThreshold))
    \/ time_diff >= TimeDiffThreshold

\* the condition under which a Tracked key gets a new record
Debounce(speed_diff, time_diff) ==
    \/ RLess(FromInt(SpeedDiffThreshold), speed_diff)
    \/ time_diff > TimeDiffThreshold

NewStateCountZero(speed_kmh, timestamp) ==
    [last_speed |-> speed_kmh, last_time |-> timestamp,
     violation_count |-> 0, max_speed |-> speed_kmh]

NewState(speed_kmh, timestamp) ==
    [last_speed |-> speed_kmh, last_time |-> timestamp,
     violation_count |-> 1, max_speed |-> speed_kmh]

UpdatedStateKeepCount(state, speed_kmh, timestamp) ==
    [last_speed |-> speed_kmh, last_time |-> timestamp,
     violation_count |-> state.violation_count,
     max_speed |-> RMax(state.max_speed, speed_kmh)]

UpdatedStateKeepTime(state, speed_kmh, timestamp) ==
    [last_speed |-> speed_kmh, last_time |-> state.last_time,
     violation_count |-> state.violation_count + 1,
     max_speed |-> RMax(state.max_speed, speed_kmh)]

UpdatedStateNoMax(state, speed_kmh, timestamp) ==
    [last_speed |-> speed_kmh, last_time |-> timestamp,
     violation_count |-> state.violation_count + 1,
     max_speed |-> state.max_speed]

UpdatedState(state, speed_kmh, timestamp) ==
    [last_speed |-> speed_kmh, last_time |-> timestamp,
     violation_count |-> state.violation_count + 1,
     max_speed |-> RMax(state.max_speed, speed_kmh)]

ViolationData(tracker_id, class_name, speed_kmh, timestamp, number) ==
    [tracker_id |-> tracker_id, class |-> class_name,
     speed_kmh |-> Trunc(speed_kmh), timestamp |-> timestamp,
     violation_number |-> number]

AlertMsg(tracker_id, class_name, speed_kmh) ==
    <<"ALERT!", class_name, tracker_id, Trunc(speed_kmh)>>

OverLimit(speed_kmh) == RLess(FromInt(SPEED_LIMIT), speed_kmh)

\* record_violation(tracker_id, class_name, speed_kmh, timestamp)
record_violation(tracker_id, class_name, speed_kmh, timestamp) ==
    IF Rejected(tracker_id, speed_kmh)
    THEN /\ ret' = NoRecord
         /\ UNCHANGED <<vehicle_states, violations, alerts, measured>>
    ELSE LET vehicle_key == VehicleKey(tracker_id, class_name) IN
         IF vehicle_key \notin DOMAIN vehicle_states
         THEN LET violation_data ==
                      ViolationData(tracker_id, class_name, speed_kmh,
                                    timestamp, 1)
              IN /\ vehicle_states' =
                        Put(vehicle_states, vehicle_key,
                            NewState(speed_kmh, timestamp))
                 /\ violations' =
                        Put(violations, vehicle_key,
                            Append(ListOf(violations, vehicle_key),
                                   violation_data))
                 /\ measured' =
                        Put(measured, vehicle_key,
                            Append(ListOf(measured, vehicle_key), speed_kmh))
                 /\ ret' = <<violation_data>>
                 /\ UNCHANGED alerts
         ELSE LET state == vehicle_states[vehicle_key]
                  time_diff == total_seconds(timestamp, state.last_time)
                  speed_diff == RAbsDiff(speed_kmh, state.last_speed)
              IN IF Debounce(speed_diff, time_diff)
                 THEN LET new_state ==
                              UpdatedState(state, speed_kmh, timestamp)
                          violation_data ==
                              ViolationData(tracker_id, class_name, speed_kmh,
                                            timestamp,
                                            new_state.violation_count)
                      IN /\ vehicle_states' =
                                Put(vehicle_states, vehicle_key, new_state)
                         /\ violations' =
                                Put(violations, vehicle_key,
                                    Append(ListOf(violations, vehicle_key),
                                           violation_data))
                         /\ measured' =
                                Put(measured, vehicle_key,
                                    Append(ListOf(measured, vehicle_key),
                                           speed_kmh))
                         /\ alerts' =
                                IF OverLimit(speed_kmh)
                                THEN Append(alerts,
                                            AlertMsg(tracker_id, class_name,
                                                     speed_kmh))
                                ELSE alerts
                         /\ ret' = <<violation_data>>
                 ELSE /\ ret' = NoRecord
                      /\ UNCHANGED <<vehicle_states, violations, alerts,
                                     measured>>

\* UltimateTrafficAnalyzer.get_statistics; analysis_id, the fixed
\* construction stamp, is left out
RECURSIVE Values(_, _)
\* the lists of a dict, one after the other: self.violations.values()
Values(d, keys) ==
    IF keys = {} THEN <<>>
    ELSE LET k == CHOOSE x \in keys : TRUE
         IN d[k] \o Values(d, keys \ {k})

AllSpeeds(v) ==
    LET records == Values(v, DOMAIN v)
    IN [i \in 1..Len(records) |-> records[i].speed_kmh]

RECURSIVE SumSeq(_)
SumSeq(s) == IF s = <<>> THEN 0 ELSE s[1] + SumSeq(Tail(s))

RECURSIVE MaxSeq(_)
MaxSeq(s) ==
    IF Len(s) = 1 THEN s[1]
    ELSE LET m == MaxSeq(Tail(s)) IN IF s[1] > m THEN s[1] ELSE m

TotalViolationsKeys(v) == Cardinality(DOMAIN v)

\* sum(len(v) for v in self.violations.values())
TotalViolations(v) == Len(Values(v, DOMAIN v))

\* max(all_speeds) if all_speeds else 0
MaxSpeed(all_speeds) == IF all_speeds = <<>> THEN 0 ELSE MaxSeq(all_speeds)

AvgSpeedFloor(all_speeds) ==
    IF all_speeds = <<>> THEN FromInt(0)
    ELSE FromInt(SumSeq(all_speeds) \div Len(all_speeds))

\* sum(all_speeds) / len(all_speeds) if all_speeds else 0
AvgSpeed(all_speeds) ==
    IF all_speeds = <<>> THEN FromInt(0)
    ELSE Rat(SumSeq(all_speeds), Len(all_speeds))

\* readings of (datetime.now() - self.start_time).total_seconds()
Durations == {1, 2}

Statistics(duration) ==
    [total_vehicles_detected |-> Cardinality(all_vehicles_seen),
     vehicles_in_zone |-> Cardinality(zone_vehicles_seen),
     total_unique_violations |-> TotalViolations(violations),
     vehicle_class_distribution |-> unique_vehicle_classes,
     max_speed |-> MaxSpeed(AllSpeeds(violations)),
     avg_speed |-> AvgSpeed(AllSpeeds(violations)),
     vehicles_with_violations |-> Cardinality(DOMAIN violations),
     processing_duration |-> duration]

get_statistics_indexing(duration) ==
    /\ ret' = <<Statistics(duration)>>
    /\ violations' = [k \in DOMAIN violations \cup all_vehicles_seen |->
                          ListOf(violations, k)]
    /\ UNCHANGED <<all_vehicles_seen, zone_vehicles_seen, vehicle_states,
                   unique_vehicle_classes, alerts, measured, sighted>>

get_statistics(duration) ==
    /\ ret' = <<Statistics(duration)>>
    /\ UNCHANGED <<all_vehicles_seen, zone_vehicles_seen, violations,
                   vehicle_states, unique_vehicle_classes, alerts, measured,
                   sighted>>

(***************************************************************************)
(* The analyzer driven directly: any sequence of calls                     *)
(***************************************************************************)
InitAnalyzer ==
    /\ all_vehicles_seen = {}
    /\ zone_vehicles_seen = {}
    /\ violations = EmptyDict
    /\ vehicle_states = EmptyDict
    /\ unique_vehicle_classes = EmptyDict
    /\ alerts = <<>>
    /\ measured = EmptyDict
    /\ sighted = EmptyDict

Init ==
    /\ InitAnalyzer
    /\ coordinates = EmptyDict
    /\ samples = EmptyDict
    /\ fps = 0
    /\ frame_num = 0
    /\ now = 0
    /\ frame_ids = {}
    /\ pc = "api"
    /\ call = [op |-> "init"]
    /\ ret = NoRecord
    /\ calls = 0
    /\ view_transformer_m = NoMatrix
    /\ disk = {}

RecordVehicleCall ==
    /\ pc = "api"
    /\ calls < MaxCalls
    /\ \E v \in Vehicles, in_zone \in BOOLEAN :
          /\ record_vehicle(v[1], v[2], in_zone)
          /\ call' = [op |-> "record_vehicle", tracker_id |-> v[1],
                      class_name |-> v[2], in_zone |-> in_zone]
    /\ ret' = NoRecord
    /\ calls' = calls + 1
    /\ UNCHANGED <<violations, vehicle_states, alerts, measured>>
    /\ UNCHANGED <<main_vars, pc>>

RecordViolationCall ==
    /\ pc = "api"
    /\ calls < MaxCalls
    /\ \E v \in Vehicles : \E m \in MeasurementsOf(v) :
          /\ record_violation(v[1], v[2], m[1], isoformat(m[2]))
          /\ call' = [op |-> "record_violation", tracker_id |-> v[1],
                      class_name |-> v[2], speed_kmh |-> m[1],
                      timestamp |-> isoformat(m[2])]
    /\ calls' = calls + 1
    /\ UNCHANGED <<all_vehicles_seen, zone_vehicles_seen,
                   unique_vehicle_classes, sighted>>
    /\ UNCHANGED <<main_vars, pc>>

GetStatisticsCall ==
    /\ pc = "api"
    /\ calls < MaxCalls
    /\ \E duration \in Durations : get_statistics(duration)
    /\ call' = [op |-> "get_statistics"]
    /\ calls' = calls + 1
    /\ UNCHANGED <<main_vars, pc>>

Next == RecordVehicleCall \/ RecordViolationCall \/ GetStatisticsCall

Spec == Init /\ [][Next]_vars

(***************************************************************************)
(* main(): the per-frame loop                                              *)
(***************************************************************************)
DequeAppendDropNewest(buffer, x, maxlen) ==
    IF Len(buffer) < maxlen THEN Append(buffer, x) ELSE buffer

\* deque(maxlen).append
DequeAppend(buffer, x, maxlen) ==
    IF Len(buffer) < maxlen THEN Append(buffer, x)
    ELSE IF maxlen = 0 THEN <<>>
    ELSE Append(Tail(buffer), x)

BufferKeyByClass(tracker_id, class_name) == class_name

\* the key of coordinates[...]
BufferKey(tracker_id, class_name) == tracker_id

SpeedOfInclusive(buffer, rate) ==
    IF 2 * Len(buffer) <= rate THEN FromInt(0)
    ELSE Rat(Abs(buffer[Len(buffer)] - buffer[1]) * rate * 36,
             Len(buffer) * 10)

SpeedOfSigned(buffer, rate) ==
    IF 2 * Len(buffer) < rate THEN FromInt(0)
    ELSE Rat((buffer[Len(buffer)] - buffer[1]) * rate * 36,
             Len(buffer) * 10)

\* speed_kmh of a detection, from the buffer after its append
SpeedOf(buffer, rate) ==
    IF 2 * Len(buffer) < rate THEN FromInt(0)
    ELSE LET coordinate_start == buffer[Len(buffer)]
             coordinate_end == buffer[1]
             distance == Abs(coordinate_start - coordinate_end)
         IN Rat(distance * rate * 36, Len(buffer) * 10)

\* the gate in front of record_violation
Submitted(speed_kmh) == RLess(FromInt(MainNoiseGate), speed_kmh)

Label(tracker_id, class_name, speed_kmh) ==
    <<"#", tracker_id, class_name, Trunc(speed_kmh), "km/h",
      OverLimit(speed_kmh)>>

\* The detection streams that are enumerated.
\* Main scenario: track 1 is detected, in any frame or not, as a car or as a
\* truck at any of the Ys; track 2 is a car detected in at most ShortTrack
\* frames, 28 units further at each; detections without a track id occur.
\* Slow scenario: one car, detected in every frame, that stands or creeps
\* forward by one unit; detections without a track id occur.
StreamVehicles ==
    IF fps = SlowFps THEN {<<1, "car">>, <<None, "car">>}
    ELSE {v \in Vehicles :
             v[1] = 2 =>
                 Len(ListOf(coordinates, BufferKey(v[1], v[2]))) < ShortTrack}

StreamFrames == IF fps = SlowFps THEN SlowFrames ELSE MaxFrames

StreamYs(v) ==
    LET buffer == ListOf(coordinates, BufferKey(v[1], v[2])) IN
    IF fps = SlowFps
    THEN IF buffer = <<>> THEN {0}
         ELSE {y \in {buffer[Len(buffer)], buffer[Len(buffer)] + 1} : y <= 1}
    ELSE IF v[1] = 2 THEN {28 * Len(buffer)}
    ELSE Ys

\* The raw detections of a frame that carry a track id: none, or one truck
RawDetections ==
    IF fps = SlowFps THEN {<<>>} ELSE {<<>>, <<<<2, "truck">>>>}

InitMain(rate) ==
    /\ InitAnalyzer
    /\ coordinates = EmptyDict
    /\ samples = EmptyDict
    /\ fps = rate
    /\ frame_num = 0
    /\ now = StartClock
    /\ frame_ids = {}
    /\ pc \in {"count", "done"}
    /\ call = [op |-> "init"]
    /\ ret = NoRecord
    /\ calls = 0
    /\ view_transformer_m = NoMatrix
    /\ disk = {}

\* "Count all vehicles": the loop over detections.tracker_id
CountVehicles ==
    /\ pc = "count"
    /\ \E raw \in RawDetections :
          /\ IF raw = <<>>
             THEN UNCHANGED <<all_vehicles_seen, zone_vehicles_seen,
                              unique_vehicle_classes, sighted>>
             ELSE record_vehicle(raw[1][1], raw[1][2], FALSE)
          /\ call' = [op |-> "count_vehicles", raw |-> raw]
    /\ pc' = "zone"
    /\ ret' = NoRecord
    /\ UNCHANGED <<violations, vehicle_states, alerts, measured>>
    /\ UNCHANGED <<main_vars, calls>>

\* One iteration of the loop over zone_detections.tracker_id
ZoneDetection ==
    /\ pc = "zone"
    /\ \E v \in StreamVehicles :
          LET tracker_id == v[1]
              class_name == v[2]
          IN IF tracker_id = None
             THEN /\ call' = [op |-> "zone_detection",
                              tracker_id |-> tracker_id,
                              class_name |-> class_name, skipped |-> TRUE]
                  /\ ret' = NoRecord
                  /\ UNCHANGED <<analyzer_vars, coordinates, samples,
                                 frame_ids>>
             ELSE /\ tracker_id \notin frame_ids
                  /\ \E y \in StreamYs(v) :
                        LET b == BufferKey(tracker_id, class_name)
                            buffer ==
                                DequeAppend(ListOf(coordinates, b), y, fps)
                            window ==
                                DequeAppend(ListOf(samples, b),
                                            [tracker_id |-> tracker_id,
                                             class_name |-> class_name,
                                             frame |-> frame_num], fps)
                            speed_kmh == SpeedOf(buffer, fps)
                        IN /\ coordinates' = Put(coordinates, b, buffer)
                           /\ samples' = Put(samples, b, window)
                           /\ record_vehicle(tracker_id, class_name, TRUE)
                           /\ IF Submitted(speed_kmh)
                              THEN record_violation(tracker_id, class_name,
                                                    speed_kmh, isoformat(now))
                              ELSE /\ ret' = NoRecord
                                   /\ UNCHANGED <<vehicle_states, violations,
                                                  alerts, measured>>
                           /\ call' = [op |-> "zone_detection",
                                       tracker_id |-> tracker_id,
                                       class_name |-> class_name,
                                       skipped |-> FALSE,
                                       y |-> y,
                                       speed_kmh |-> speed_kmh,
                                       label |-> Label(tracker_id, class_name,
                                                       speed_kmh),
                                       submitted |-> Submitted(speed_kmh),
                                       window |-> window]
                  /\ frame_ids' = frame_ids \cup {tracker_id}
    /\ UNCHANGED <<fps, frame_num, now, pc, calls, view_transformer_m, disk>>

EndFrameIgnoresQuit ==
    /\ pc = "zone"
    /\ fps = SlowFps => frame_ids # {}
    /\ \E quit \in BOOLEAN, more \in BOOLEAN, d \in ClockSteps :
          /\ now' = now + d
          /\ IF more /\ frame_num + 1 < StreamFrames
             THEN pc' = "count" /\ frame_num' = frame_num + 1
             ELSE pc' = "done" /\ frame_num' = frame_num
          /\ call' = [op |-> "end_frame", quit |-> quit]
    /\ frame_ids' = {}
    /\ ret' = NoRecord
    /\ UNCHANGED <<analyzer_vars, coordinates, samples, fps, calls,
                   view_transformer_m, disk>>

\* The end of the loop body: the frame is shown, the quit key is read, and
\* the generator yields the next frame or ends.  The wall clock advances
\* here.  The statistics printed every hundredth frame are not kept.
EndFrame ==
    /\ pc = "zone"
    /\ fps = SlowFps => frame_ids # {}
    /\ \E quit \in BOOLEAN, more \in BOOLEAN, d \in ClockSteps :
          /\ now' = now + d
          /\ IF ~quit /\ more /\ frame_num + 1 < StreamFrames
             THEN pc' = "count" /\ frame_num' = frame_num + 1
             ELSE pc' = "done" /\ frame_num' = frame_num
          /\ call' = [op |-> "end_frame", quit |-> quit]
    /\ frame_ids' = {}
    /\ ret' = NoRecord
    /\ UNCHANGED <<analyzer_vars, coordinates, samples, fps, calls,
                   view_transformer_m, disk>>

\* After the loop: final_stats = analyzer.get_statistics()
FinalStatistics ==
    /\ pc = "done"
    /\ get_statistics(now - StartClock)
    /\ call' = [op |-> "final_statistics"]
    /\ pc' = "finished"
    /\ UNCHANGED <<main_vars, calls>>

NextMain == CountVehicles \/ ZoneDetection \/ EndFrame \/ FinalStatistics

SpecMain == InitMain(FPS) /\ [][NextMain]_vars


SpecSlow == InitMain(SlowFps) /\ [][NextMain]_vars

\* The slow stream under the scheduling of the code: the loop over the
\* finite list of a frame's detections goes through the list and ends, the
\* loop over the frames goes on, and the code after the loop runs
SpecSlowFair ==
    /\ SpecSlow
    /\ WF_vars(CountVehicles)
    /\ WF_vars(ZoneDetection)
    /\ WF_vars(EndFrame)
    /\ WF_vars(FinalStatistics)

\* The analyzer driven directly, or by the loop over the slow stream
NextAll == Next \/ NextMain

SpecAll == (Init \/ InitMain(SlowFps)) /\ [][NextAll]_vars

(***************************************************************************)
(* ViewTransformer                                                         *)
(***************************************************************************)
\* a 3x3 matrix of integers as a matrix of exact integers
BigMatrix(mat) == [i \in 1..3 |-> [j \in 1..3 |-> Big(mat[i][j])]]

MatMul(A, B) ==
    [i \in 1..3 |-> [j \in 1..3 |->
        BigAdd(BigAdd(BigMul(A[i][1], B[1][j]), BigMul(A[i][2], B[2][j])),
               BigMul(A[i][3], B[3][j]))]]

\* the adjugate: the inverse up to the factor det, which a perspective map
\* does not see
Adjugate(M) ==
    LET n(i) == (i % 3) + 1
    IN [i \in 1..3 |-> [j \in 1..3 |->
           BigSub(BigMul(M[n(j)][n(i)], M[n(n(j))][n(n(i))]),
                  BigMul(M[n(j)][n(n(i))], M[n(n(j))][n(i)]))]]

\* the perspective map that takes the unit square (0,0), (1,0), (1,1), (0,1)
\* to the quadrilateral q, all entries multiplied by the common denominator
SquareToQuad(q) ==
    LET x(i) == Big(q[i][1])
        y(i) == Big(q[i][2])
        sx == BigAdd(BigSub(x(1), x(2)), BigSub(x(3), x(4)))
        sy == BigAdd(BigSub(y(1), y(2)), BigSub(y(3), y(4)))
        dx1 == BigSub(x(2), x(3))
        dy1 == BigSub(y(2), y(3))
        dx2 == BigSub(x(4), x(3))
        dy2 == BigSub(y(4), y(3))
        D == BigSub(BigMul(dx1, dy2), BigMul(dx2, dy1))
        G == BigSub(BigMul(sx, dy2), BigMul(dx2, sy))
        H == BigSub(BigMul(dx1, sy), BigMul(sx, dy1))
    IN <<<<BigAdd(BigMul(D, BigSub(x(2), x(1))), BigMul(G, x(2))),
           BigAdd(BigMul(D, BigSub(x(4), x(1))), BigMul(H, x(4))),
           BigMul(D, x(1))>>,
         <<BigAdd(BigMul(D, BigSub(y(2), y(1))), BigMul(G, y(2))),
           BigAdd(BigMul(D, BigSub(y(4), y(1))), BigMul(H, y(4))),
           BigMul(D, y(1))>>,
         <<G, H, D>>>>

getPerspectiveTransformSwapped(source, target) ==
    MatMul(SquareToQuad(source), Adjugate(SquareToQuad(target)))

\* cv2.getPerspectiveTransform(source, target): the perspective map fixed by
\* four point pairs, here up to a common factor of its nine entries
getPerspectiveTransform(source, target) ==
    MatMul(SquareToQuad(target), Adjugate(SquareToQuad(source)))

\* Perspective matrices a transformer can hold: the identity, a true
\* perspective map whose third row makes w = y + 1, and the one the
\* program builds
Matrices ==
    {BigMatrix(<<<<1, 0, 0>>, <<0, 1, 0>>, <<0, 0, 1>>>>),
     BigMatrix(<<<<2, 0, -1>>, <<0, 3, 1>>, <<0, 1, 1>>>>),
     getPerspectiveTransform(SOURCE, TARGET)}

\* picture points (x, y): the corners of the zone for the program's
\* transformer, four small points for the others
PixelPoints ==
    IF view_transformer_m = getPerspectiveTransform(SOURCE, TARGET)
    THEN {SOURCE[i] : i \in 1..4}
    ELSE {<<0, 0>>, <<1, 2>>, <<3, -1>>, <<2, 2>>}

\* arrays of shape (n, 2), n <= MaxPoints
PointLists ==
    UNION {[1..n -> PixelPoints] : n \in 0..MaxPoints}

\* cv2.perspectiveTransform on one point: (x', y') = (X / w, Y / w), and
\* (0, 0) where w = 0
Project(mat, point) ==
    LET x == Big(point[1])
        y == Big(point[2])
        row(i) == BigAdd(BigAdd(BigMul(mat[i][1], x), BigMul(mat[i][2], y)),
                         mat[i][3])
        w == row(3)
    IN IF w[1] = 0 THEN <<BigRat(Big(0), Big(1)), BigRat(Big(0), Big(1))>>
       ELSE <<BigRat(row(1), w), BigRat(row(2), w)>>

\* points.reshape(-1, 1, 2): n rows of one point
ReshapeRows(points) == [i \in 1..Len(points) |-> <<points[i]>>]

ReshapePointsReversed(rows) ==
    [i \in 1..Len(rows) |-> rows[Len(rows) + 1 - i][1]]

\* transformed_points.reshape(-1, 2): back to n points
ReshapePoints(rows) == [i \in 1..Len(rows) |-> rows[i][1]]

\* cv2.perspectiveTransform(src, m): an assertion fails on an empty src
perspectiveTransform(src, mat) ==
    IF Len(src) = 0 THEN [error |-> TRUE, value |-> <<>>]
    ELSE [error |-> FALSE,
          value |-> [i \in 1..Len(src) |->
                        [j \in 1..Len(src[i]) |-> Project(mat, src[i][j])]]]

transform_points_unguarded(points) ==
    LET transformed_points ==
            perspectiveTransform(ReshapeRows(points), view_transformer_m)
    IN IF transformed_points.error THEN transformed_points
       ELSE [error |-> FALSE,
             value |-> ReshapePoints(transformed_points.value)]

\* ViewTransformer.transform_points
transform_points(points) ==
    IF Len(points) = 0 THEN [error |-> FALSE, value |-> points]
    ELSE LET transformed_points ==
                 perspectiveTransform(ReshapeRows(points), view_transformer_m)
         IN IF transformed_points.error THEN transformed_points
            ELSE [error |-> FALSE,
                  value |-> ReshapePoints(transformed_points.value)]

\* A transformer built from some source and target quadrilaterals
InitView ==
    /\ InitAnalyzer
    /\ coordinates = EmptyDict
    /\ samples = EmptyDict
    /\ fps = 0
    /\ frame_num = 0
    /\ now = 0
    /\ frame_ids = {}
    /\ pc = "view"
    /\ call = [op |-> "init"]
    /\ ret = NoRecord
    /\ calls = 0
    /\ view_transformer_m \in Matrices
    /\ disk = {}

TransformPointsCall ==
    /\ pc = "view"
    /\ \E points \in PointLists :
          /\ call' = [op |-> "transform_points", points |-> points]
          /\ ret' = <<transform_points(points)>>
    /\ pc' = "transformed"
    /\ UNCHANGED <<analyzer_vars, main_vars, calls>>

NextView == TransformPointsCall

SpecView == InitView /\ [][NextView]_vars

(***************************************************************************)
(* The e-mail report: send_email_with_documents and its fallback           *)
(***************************************************************************)
\* a filename variable still holding None
NoFilename == "None"

\* the four files of one analysis_id
nodejs_txt == "nodejs_output_A.txt"
scorecard_txt == "premium_scorecard_A.txt"
html_report == "traffic_report_A.html"
json_data_file == "traffic_data_A.json"

TempFiles == {nodejs_txt, scorecard_txt, html_report, json_data_file}

\* what `with open(name, 'w') as f: ...write...` can do: succeed, fail in
\* open (no file), or fail in a write (the file exists, partly written)
WriteOutcomes == {"ok", "open_fails", "write_fails"}

\* how the SMTP conversation ends: sent, SMTPAuthenticationError, another
\* SMTPException, or any other exception (a socket timeout)
SmtpOutcomes == {"sent", "auth_error", "smtp_error", "other_error"}

\* receiver_email as typed by the operator, a sequence of characters
Receivers == {<<>>, <<"d", "r">>, <<"d", "@", "x">>}

\* what the environment does during one call
Environments ==
    [nodejs : WriteOutcomes, scorecard : WriteOutcomes, html : WriteOutcomes,
     json : WriteOutcomes, attach : {"ok", "fails"}, smtp : SmtpOutcomes,
     unexpected : BOOLEAN]

\* not receiver_email or "@" not in receiver_email
InvalidRecipient(receiver_email) ==
    \/ receiver_email = <<>>
    \/ \A i \in DOMAIN receiver_email : receiver_email[i] # "@"

\* the directory after `with open(filename, 'w')` and its writes
Written(d, filename, outcome) ==
    IF outcome = "open_fails" THEN d ELSE d \cup {filename}

\* what a generate_* function returns: the filename, or None from its
\* except clause
Generated(filename, outcome) ==
    IF outcome = "ok" THEN filename ELSE NoFilename

\* for file_path in files_to_clean:
\*     if file_path and os.path.exists(file_path): os.remove(file_path)
CleanUp(d, files_to_clean) ==
    d \ {files_to_clean[i] : i \in {j \in DOMAIN files_to_clean :
                                       files_to_clean[j] # NoFilename}}

\* The fallback: one JSON attachment.
send_email_report(receiver_email, env, d) ==
    IF InvalidRecipient(receiver_email)
    THEN [ret |-> FALSE, disk |-> d]
    ELSE IF env.unexpected
    THEN [ret |-> FALSE, disk |-> CleanUp(d, <<NoFilename>>)]
    ELSE IF env.json # "ok"
    THEN [ret |-> FALSE, disk |-> Written(d, json_data_file, env.json)]
    ELSE LET d1 == Written(d, json_data_file, env.json)
         IN IF env.attach # "ok"
            THEN [ret |-> FALSE, disk |-> d1]
            ELSE IF env.smtp = "sent"
            THEN [ret |-> TRUE, disk |-> CleanUp(d1, <<json_data_file>>)]
            ELSE [ret |-> FALSE, disk |-> d1]

send_email_with_documents(receiver_email, env, d) ==
    IF InvalidRecipient(receiver_email)
    THEN [ret |-> FALSE, disk |-> d]
    ELSE
    LET nodejs_txt_filename == Generated(nodejs_txt, env.nodejs)
        scorecard_txt_filename == Generated(scorecard_txt, env.scorecard)
        html_filename == Generated(html_report, env.html)
        d1 == Written(Written(Written(d, nodejs_txt, env.nodejs),
                              scorecard_txt, env.scorecard),
                      html_report, env.html)
    IN
    IF nodejs_txt_filename = NoFilename \/ scorecard_txt_filename = NoFilename
    THEN send_email_report(receiver_email, env, d1)
    ELSE IF env.unexpected
    THEN \* the outer except clause, json_filename still None
         [ret |-> FALSE,
          disk |-> CleanUp(d1, <<NoFilename, nodejs_txt_filename,
                                 scorecard_txt_filename, html_filename>>)]
    ELSE IF env.json # "ok"
    THEN [ret |-> FALSE, disk |-> Written(d1, json_data_file, env.json)]
    ELSE
    LET d2 == Written(d1, json_data_file, env.json)
    IN  \* a failed attachment is skipped, the message is sent without it
        IF env.smtp = "sent"
        THEN [ret |-> TRUE,
              disk |-> CleanUp(d2, <<json_data_file, nodejs_txt_filename,
                                     scorecard_txt_filename, html_filename>>)]
        ELSE [ret |-> FALSE, disk |-> d2]

\* main, after the final statistics, with --send_email and a fresh
\* analysis_id: none of its files exists yet
InitEmail ==
    /\ InitAnalyzer
    /\ coordinates = EmptyDict
    /\ samples = EmptyDict
    /\ fps = FPS
    /\ frame_num = 0
    /\ now = 0
    /\ frame_ids = {}
    /\ pc = "email"
    /\ call = [op |-> "init"]
    /\ ret = NoRecord
    /\ calls = 0
    /\ view_transformer_m = NoMatrix
    /\ disk = {}

SendEmailCall ==
    /\ pc = "email"
    /\ \E receiver_email \in Receivers, env \in Environments :
          LET out == send_email_with_documents(receiver_email, env, disk)
          IN /\ call' = [op |-> "send_email_with_documents",
                         receiver_email |-> receiver_email, env |-> env]
             /\ ret' = <<out.ret>>
             /\ disk' = out.disk
    /\ pc' = "emailed"
    /\ UNCHANGED <<analyzer_vars, coordinates, fps, frame_num, now, frame_ids,
                   samples, view_transformer_m, calls>>

NextEmail == SendEmailCall

SpecEmail == InitEmail /\ [][NextEmail]_vars

(***************************************************************************)
(* Properties                                                              *)
(***************************************************************************)
RECURSIVE SumOver(_, _)
SumOver(f, S) ==
    IF S = {} THEN 0
    ELSE LET k == CHOOSE x \in S : TRUE IN f[k] + SumOver(f, S \ {k})

SightedPairs == {<<t[1], t[2]>> : t \in DOMAIN sighted}

\* C1: for every vehicle key the violation_number values of its records,
\* read in list order, are exactly 1, 2, ..., n: no gap and no repeat.
C1_SequenceNumbersExact ==
    \A k \in DOMAIN violations :
        \A i \in 1..Len(violations[k]) :
            violations[k][i].violation_number = i

C1_Witness == \E k \in DOMAIN violations : Len(violations[k]) >= 3

\* C2: for a key that already has a state and a measurement with speed >= 5,
\* record_violation emits a record if and only if |speed - last_speed| > 10
\* or timestamp - last_time > 5 s, both strict; with last_speed = 80 and
\* last_time = T, (91, T+1) emits, (89, T+1) does not, (82, T+6) emits, and
\* (90, T+5) does not.
C2_DebounceIff ==
    [][(/\ call'.op = "record_violation"
        /\ call'.tracker_id # None
        /\ call'.speed_kmh[1] >= 5 * call'.speed_kmh[2]
        /\ VehicleKey(call'.tracker_id, call'.class_name)
               \in DOMAIN vehicle_states)
       => LET k == VehicleKey(call'.tracker_id, call'.class_name)
              s == call'.speed_kmh
              l == vehicle_states[k].last_speed
              dt == (call'.timestamp[1] * 60 + call'.timestamp[2])
                    - (vehicle_states[k].last_time[1] * 60
                       + vehicle_states[k].last_time[2])
              big == Abs(s[1] * l[2] - l[1] * s[2]) > 10 * s[2] * l[2]
              emitted == /\ k \in DOMAIN violations'
                         /\ Len(violations'[k]) = Len(ListOf(violations, k)) + 1
              from80 == l = <<80, 1>> /\ vehicle_states[k].last_time = <<0, 58>>
          IN /\ emitted <=> (big \/ dt > 5)
             /\ emitted <=> (ret' # NoRecord)
             /\ (from80 /\ s = <<91, 1>> /\ call'.timestamp = <<0, 59>>)
                    => emitted
             /\ (from80 /\ s = <<89, 1>> /\ call'.timestamp = <<0, 59>>)
                    => ~emitted
             /\ (from80 /\ s = <<82, 1>> /\ call'.timestamp = <<1, 4>>)
                    => emitted
             /\ (from80 /\ s = <<90, 1>> /\ call'.timestamp = <<1, 3>>)
                    => ~emitted
      ]_vars

C2_Witness ==
    /\ call.op = "record_violation"
    /\ call.tracker_id # None
    /\ call.speed_kmh = <<90, 1>>
    /\ call.timestamp = <<1, 3>>
    /\ ret = NoRecord
    /\ VehicleKey(call.tracker_id, call.class_name) \in DOMAIN vehicle_states
    /\ LET st == vehicle_states[VehicleKey(call.tracker_id, call.class_name)]
       IN st.last_speed = <<80, 1>> /\ st.last_time = <<0, 58>>

\* C3: every emitted record whose measured speed is > 100 raises exactly one
\* alert, the first record of a key included: the number of alerts raised
\* equals the number of emitted records whose measured speed exceeded 100.
C3_AlertPerOverLimitRecord ==
    Len(alerts) =
        SumOver([k \in DOMAIN measured |->
                    Cardinality({i \in 1..Len(measured[k]) :
                                    measured[k][i][1] > 100 * measured[k][i][2]})],
                DOMAIN measured)

\* C4: a call of record_violation with speed < 5 returns no record and leaves
\* vehicle_states and violations unchanged, whether the key is Unseen or
\* Tracked.
C4_NoiseFloorNoOp ==
    [][(/\ call'.op = "record_violation"
        /\ call'.speed_kmh[1] < 5 * call'.speed_kmh[2])
       => /\ ret' = NoRecord
          /\ vehicle_states' = vehicle_states
          /\ violations' = violations
      ]_vars

C4_Witness ==
    /\ call.op = "record_violation"
    /\ call.tracker_id # None
    /\ call.speed_kmh[1] < 5 * call.speed_kmh[2]
    /\ VehicleKey(call.tracker_id, call.class_name) \in DOMAIN vehicle_states
    /\ ret = NoRecord

\* C6: every call of record_violation either appends exactly one record to
\* the list of its one key and updates that key's last_speed, last_time,
\* violation_count (+1) and max_speed together, or changes nothing in
\* vehicle_states and violations; a measurement for a Tracked key that meets
\* neither debounce condition changes nothing; every other key is unchanged.
C6_AllOrNothing ==
    [][call'.op = "record_violation"
       => LET k == VehicleKey(call'.tracker_id, call'.class_name)
              s == call'.speed_kmh
              tracked == k \in DOMAIN vehicle_states
              old == ListOf(violations, k)
              oldcount == IF tracked THEN vehicle_states[k].violation_count
                          ELSE 0
              oldmax == IF tracked THEN vehicle_states[k].max_speed ELSE s
              newmax == IF oldmax[1] * s[2] < s[1] * oldmax[2] THEN s
                        ELSE oldmax
              nochange == /\ vehicle_states' = vehicle_states
                          /\ violations' = violations
              commit ==
                  /\ call'.tracker_id # None
                  /\ DOMAIN violations' = DOMAIN violations \cup {k}
                  /\ DOMAIN vehicle_states' = DOMAIN vehicle_states \cup {k}
                  /\ Len(violations'[k]) = Len(old) + 1
                  /\ SubSeq(violations'[k], 1, Len(old)) = old
                  /\ vehicle_states'[k].last_speed = s
                  /\ vehicle_states'[k].last_time = call'.timestamp
                  /\ vehicle_states'[k].violation_count = oldcount + 1
                  /\ vehicle_states'[k].max_speed = newmax
                  /\ \A j \in DOMAIN violations \ {k} :
                         violations'[j] = violations[j]
                  /\ \A j \in DOMAIN vehicle_states \ {k} :
                         vehicle_states'[j] = vehicle_states[j]
              absorbed ==
                  /\ tracked
                  /\ LET l == vehicle_states[k].last_speed
                         lt == vehicle_states[k].last_time
                     IN /\ Abs(s[1] * l[2] - l[1] * s[2]) <= 10 * s[2] * l[2]
                        /\ (call'.timestamp[1] * 60 + call'.timestamp[2])
                           - (lt[1] * 60 + lt[2]) <= 5
          IN /\ commit \/ nochange
             /\ absorbed => nochange
      ]_vars

C6_Witness ==
    /\ call.op = "record_violation"
    /\ call.tracker_id # None
    /\ call.speed_kmh = <<89, 1>>
    /\ ret = NoRecord
    /\ Cardinality(DOMAIN vehicle_states) >= 2
    /\ VehicleKey(call.tracker_id, call.class_name) \in DOMAIN vehicle_states
    /\ vehicle_states[VehicleKey(call.tracker_id, call.class_name)].max_speed
           = <<201, 2>>

\* C7: for a key with no state, a measurement with a non-null track id and
\* speed >= 5 is always accepted: it creates the state with last_speed =
\* max_speed = speed, last_time = timestamp, violation_count = 1, and appends
\* a record with violation_number 1.
C7_FirstMeasurementAccepted ==
    [][(/\ call'.op = "record_violation"
        /\ call'.tracker_id # None
        /\ call'.speed_kmh[1] >= 5 * call'.speed_kmh[2]
        /\ VehicleKey(call'.tracker_id, call'.class_name)
               \notin DOMAIN vehicle_states)
       => LET k == VehicleKey(call'.tracker_id, call'.class_name) IN
          /\ k \in DOMAIN vehicle_states'
          /\ vehicle_states'[k] =
                 [last_speed |-> call'.speed_kmh,
                  last_time |-> call'.timestamp,
                  violation_count |-> 1,
                  max_speed |-> call'.speed_kmh]
          /\ k \in DOMAIN violations'
          /\ Len(violations'[k]) = 1
          /\ violations'[k][1].violation_number = 1
          /\ violations'[k][1].tracker_id = call'.tracker_id
          /\ violations'[k][1].class = call'.class_name
          /\ violations'[k][1].timestamp = call'.timestamp
          /\ ret' = <<violations'[k][1]>>
      ]_vars

C7_Witness ==
    /\ call.op = "record_violation"
    /\ call.speed_kmh = <<5, 1>>
    /\ ret # NoRecord
    /\ ret[1].violation_number = 1
    /\ ret[1].speed_kmh = 5

\* C8: record_vehicle is idempotent per key: each sighted key occurs once in
\* all_vehicles_seen, the counter of each class equals the number of distinct
\* sighted keys of that class, the counters sum to |all_vehicles_seen|, and
\* repeating a call with the same (track id, class, in_zone) leaves
\* all_vehicles_seen, zone_vehicles_seen and the class counters unchanged.
C8_RecordVehicleIdempotent ==
    /\ [](/\ Cardinality(all_vehicles_seen) = Cardinality(SightedPairs)
          /\ \A c \in Classes :
                 CounterGet(unique_vehicle_classes, c)
                     = Cardinality({p \in SightedPairs : p[2] = c})
          /\ SumOver(unique_vehicle_classes, DOMAIN unique_vehicle_classes)
                 = Cardinality(all_vehicles_seen))
    /\ [][(/\ call'.op = "record_vehicle"
           /\ <<call'.tracker_id, call'.class_name, call'.in_zone>>
                  \in DOMAIN sighted)
          => /\ all_vehicles_seen' = all_vehicles_seen
             /\ zone_vehicles_seen' = zone_vehicles_seen
             /\ unique_vehicle_classes' = unique_vehicle_classes
         ]_vars

C8_Witness ==
    /\ call.op = "record_vehicle"
    /\ \E t \in DOMAIN sighted : sighted[t] = 2 /\ t[3]
    /\ Cardinality(all_vehicles_seen) = 1
    /\ SumOver(unique_vehicle_classes, DOMAIN unique_vehicle_classes) = 1

\* C9: vehicle identity is the pair (track id, class label): distinct pairs
\* have distinct keys, so the same track id seen with two class labels
\* yields two entries in all_vehicles_seen, one count in each class, and two
\* violation lists, each holding the records of one pair only, numbered
\* from 1.
C9_IdentityIsPair ==
    /\ Cardinality(all_vehicles_seen) = Cardinality(SightedPairs)
    /\ SumOver(unique_vehicle_classes, DOMAIN unique_vehicle_classes)
           = Cardinality(SightedPairs)
    /\ \A k \in DOMAIN violations :
           /\ violations[k] # <<>>
           /\ violations[k][1].violation_number = 1
           /\ \A i \in 1..Len(violations[k]) :
                  /\ violations[k][i].tracker_id = violations[k][1].tracker_id
                  /\ violations[k][i].class = violations[k][1].class
    /\ \A k \in DOMAIN violations, j \in DOMAIN violations :
           (/\ violations[k][1].tracker_id = violations[j][1].tracker_id
            /\ violations[k][1].class = violations[j][1].class) => k = j

C9_Witness ==
    /\ {"1_car", "1_truck"} \subseteq all_vehicles_seen
    /\ {"1_car", "1_truck"} \subseteq DOMAIN violations
    /\ CounterGet(unique_vehicle_classes, "car") = 1
    /\ CounterGet(unique_vehicle_classes, "truck") = 1
    /\ violations["1_car"][1].violation_number = 1
    /\ violations["1_truck"][1].violation_number = 1

\* C5: in the per-frame loop a computed speed is submitted to violation
\* evaluation exactly when speed >= 5: a vehicle whose computed speed is
\* exactly 5 and that has no prior violation state gets record number 1,
\* and only speeds strictly below 5 are ignored.
C5_SubmittedFromFive ==
    (call.op = "zone_detection" /\ ~call.skipped)
    => /\ call.submitted <=> call.speed_kmh[1] >= 5 * call.speed_kmh[2]
       /\ call.speed_kmh = <<5, 1>>
              => /\ VehicleKey(call.tracker_id, call.class_name)
                        \in DOMAIN violations
                 /\ violations[VehicleKey(call.tracker_id, call.class_name)][1]
                        .violation_number = 1

C11_SlidingWindow ==
    /\ [](\A b \in DOMAIN coordinates :
              /\ Len(coordinates[b]) <= fps
              /\ Len(samples[b]) = Len(coordinates[b])
              /\ \A i \in 1..(Len(samples[b]) - 1) :
                     samples[b][i].frame < samples[b][i + 1].frame)
    /\ [][(call'.op = "zone_detection" /\ ~call'.skipped)
          => LET t == call'.tracker_id
                 old == ListOf(coordinates, t)
                 new == coordinates'[t]
             IN IF Len(old) = fps
                THEN /\ Len(new) = fps
                     /\ \A i \in 1..(fps - 1) : new[i] = old[i + 1]
                     /\ new[fps] = call'.y
                ELSE new = old \o <<call'.y>>
         ]_vars

C11_Witness ==
    /\ call.op = "zone_detection"
    /\ ~call.skipped
    /\ Len(call.window) = fps
    /\ call.window[1].frame > 0
    /\ call.window[fps].frame = frame_num
    /\ coordinates[call.tracker_id][1] # coordinates[call.tracker_id][fps]

\* C12: while a track's buffer, counted after the current append, holds
\* fewer than fps/2 samples, the reported speed is 0 and the detection is not
\* submitted to violation evaluation; from ceil(fps/2) samples on the speed
\* is computed, so it is not 0 when the window's ends differ; the first
\* computed speed comes at 15 samples for fps = 30 and at 13 for fps = 25.
C12_RampUp ==
    /\ (call.op = "zone_detection" /\ ~call.skipped)
       => LET n == Len(call.window)
              buffer == coordinates[call.tracker_id]
          IN /\ n < (fps + 1) \div 2
                    => /\ call.speed_kmh = <<0, 1>>
                       /\ ~call.submitted
                       /\ ret = NoRecord
             /\ (n >= (fps + 1) \div 2 /\ buffer[n] # buffer[1])
                    => call.speed_kmh[1] > 0
    /\ SpeedOf([i \in 1..14 |-> i], 30) = <<0, 1>>
    /\ SpeedOf([i \in 1..15 |-> i], 30)[1] > 0
    /\ SpeedOf([i \in 1..12 |-> i], 25) = <<0, 1>>
    /\ SpeedOf([i \in 1..13 |-> i], 25)[1] > 0

C12_Witness ==
    /\ call.op = "zone_detection"
    /\ ~call.skipped
    /\ Len(call.window) = (fps + 1) \div 2
    /\ call.speed_kmh[1] > 0
    /\ call.submitted
    /\ ret # NoRecord
    /\ ret[1].violation_number = 1

\* C13: for a buffer with at least fps/2 samples the computed speed equals
\* |newest - oldest| / (sample_count / fps) * 3.6, is never negative, and is
\* the same whichever direction the vehicle moves; for fps = 30 and a window
\* of 30 samples with oldest = 100 and newest = 250 it is 540.
C13_SpeedFormula ==
    /\ (/\ call.op = "zone_detection"
        /\ ~call.skipped
        /\ 2 * Len(call.window) >= fps)
       => LET buffer == coordinates[call.tracker_id]
              n == Len(buffer)
              d == IF buffer[n] >= buffer[1] THEN buffer[n] - buffer[1]
                   ELSE buffer[1] - buffer[n]
              mirrored == [i \in 1..n |-> buffer[n + 1 - i]]
          IN /\ call.speed_kmh[2] > 0
             /\ call.speed_kmh[1] >= 0
             /\ call.speed_kmh[1] * n * 10 = d * fps * 36 * call.speed_kmh[2]
             /\ SpeedOf(mirrored, fps) = call.speed_kmh
    /\ SpeedOf([i \in 1..30 |-> IF i = 1 THEN 100 ELSE 250], 30) = <<540, 1>>
    /\ SpeedOf([i \in 1..30 |-> IF i = 1 THEN 250 ELSE 100], 30) = <<540, 1>>

C13_Witness ==
    /\ call.op = "zone_detection"
    /\ ~call.skipped
    /\ 2 * Len(call.window) >= fps
    /\ coordinates[call.tracker_id][Len(call.window)]
           < coordinates[call.tracker_id][1]
    /\ call.speed_kmh[1] > 100 * call.speed_kmh[2]

\* the (key, position) pairs of all stored violation records
RecordSlots == {<<k, i>> \in (DOMAIN violations) \X (1..MaxCalls) :
                    i <= Len(violations[k])}

StoredSpeed == [p \in RecordSlots |-> violations[p[1]][p[2]].speed_kmh]

\* C14: in the statistics returned by get_statistics, avg_speed times the
\* total number of records equals the sum of the stored speed_kmh of all
\* records, and max_speed equals the largest stored speed_kmh; with no
\* record both are 0.
C14_AvgAndMaxSpeed ==
    call.op = "get_statistics"
    => LET stats == ret[1]
           n == Cardinality(RecordSlots)
       IN /\ stats.avg_speed[2] > 0
          /\ stats.avg_speed[1] * n
                 = SumOver(StoredSpeed, RecordSlots) * stats.avg_speed[2]
          /\ \A p \in RecordSlots : StoredSpeed[p] <= stats.max_speed
          /\ n > 0 => \E p \in RecordSlots : StoredSpeed[p] = stats.max_speed
          /\ n = 0 => (stats.avg_speed = <<0, 1>> /\ stats.max_speed = 0)

C14_Witness ==
    /\ call.op = "get_statistics"
    /\ Cardinality(RecordSlots) = 3
    /\ Cardinality(DOMAIN violations) = 2
    /\ ret[1].avg_speed[2] > 1
    /\ ret[1].max_speed = 100

\* C15: in the statistics returned after any sequence of record_vehicle,
\* record_violation and get_statistics calls, vehicles_with_violations equals
\* the number of distinct vehicle keys whose violation list is non-empty and
\* total_unique_violations equals the sum of the lengths of all lists.
C15_ViolationCounts ==
    call.op = "get_statistics"
    => /\ ret[1].vehicles_with_violations
              = Cardinality({k \in DOMAIN violations :
                                 Len(violations[k]) > 0})
       /\ ret[1].total_unique_violations
              = SumOver([k \in DOMAIN violations |-> Len(violations[k])],
                        DOMAIN violations)

C15_Witness ==
    /\ call.op = "get_statistics"
    /\ ret[1].vehicles_with_violations = 2
    /\ ret[1].total_unique_violations = 3
    /\ ret[1].total_vehicles_detected = 0

\* C16: get_statistics is a pure read: it changes none of all_vehicles_seen,
\* zone_vehicles_seen, violations, vehicle_states, unique_vehicle_classes
\* (it creates no key in violations), and two calls with no other operation
\* between them return the same value in every field except
\* processing_duration.
C16_StatisticsPureRead ==
    [][call'.op = "get_statistics"
       => /\ all_vehicles_seen' = all_vehicles_seen
          /\ zone_vehicles_seen' = zone_vehicles_seen
          /\ DOMAIN violations' = DOMAIN violations
          /\ violations' = violations
          /\ vehicle_states' = vehicle_states
          /\ unique_vehicle_classes' = unique_vehicle_classes
          /\ call.op = "get_statistics"
                 => [ret'[1] EXCEPT !.processing_duration = 0]
                        = [ret[1] EXCEPT !.processing_duration = 0]
      ]_vars

C16_Witness ==
    /\ call.op = "get_statistics"
    /\ calls = 4
    /\ ret[1].processing_duration = 2
    /\ ret[1].total_vehicles_detected = 1
    /\ ret[1].vehicles_in_zone = 0
    /\ ret[1].total_unique_violations = 1
    /\ ret[1].avg_speed = <<80, 1>>

\* C17: a null track id is always skipped: record_vehicle(None, ...) and
\* record_violation(None, ...) change no analyzer state and emit no record
\* and no alert, whatever the speed; in the per-frame loop a detection with
\* a null track id appends nothing to any history buffer and reaches neither
\* the ledger nor the violation history.
C17_NullTrackIdSkipped ==
    [][(/\ call'.op \in {"record_vehicle", "record_violation",
                         "zone_detection"}
        /\ call'.tracker_id = None)
       => /\ all_vehicles_seen' = all_vehicles_seen
          /\ zone_vehicles_seen' = zone_vehicles_seen
          /\ unique_vehicle_classes' = unique_vehicle_classes
          /\ violations' = violations
          /\ vehicle_states' = vehicle_states
          /\ alerts' = alerts
          /\ coordinates' = coordinates
          /\ ret' = NoRecord
      ]_vars

C17_Witness ==
    /\ call.op = "record_violation"
    /\ call.tracker_id = None
    /\ RLess(FromInt(SPEED_LIMIT), call.speed_kmh)
    /\ DOMAIN violations = {VehicleKey(1, "car")}
    /\ calls = 2

C17_WitnessLoop ==
    /\ call.op = "zone_detection"
    /\ call.tracker_id = None
    /\ DOMAIN coordinates = {1}
    /\ frame_num > 0

\* C18: across any single operation the ledger and the violation history only
\* grow: the two sets never lose a member, no class counter and no
\* violation_count decreases, no key leaves vehicle_states, and each
\* violation list keeps its old content as an unchanged prefix.
C18_OnlyGrows ==
    [][/\ all_vehicles_seen \subseteq all_vehicles_seen'
       /\ zone_vehicles_seen \subseteq zone_vehicles_seen'
       /\ \A c \in DOMAIN unique_vehicle_classes :
              /\ c \in DOMAIN unique_vehicle_classes'
              /\ unique_vehicle_classes'[c] >= unique_vehicle_classes[c]
       /\ \A k \in DOMAIN vehicle_states :
              /\ k \in DOMAIN vehicle_states'
              /\ vehicle_states'[k].violation_count
                     >= vehicle_states[k].violation_count
       /\ \A k \in DOMAIN violations :
              /\ k \in DOMAIN violations'
              /\ Len(violations'[k]) >= Len(violations[k])
              /\ \A i \in 1..Len(violations[k]) :
                     violations'[k][i] = violations[k][i]
      ]_vars

C18_Witness ==
    /\ Cardinality(all_vehicles_seen) = 2
    /\ Cardinality(zone_vehicles_seen) = 1
    /\ \E c \in DOMAIN unique_vehicle_classes : unique_vehicle_classes[c] = 2
    /\ \E k \in DOMAIN violations :
           /\ Len(violations[k]) = 2
           /\ vehicle_states[k].violation_count = 2

\* C19: when the measurements of a key come with non-decreasing timestamps,
\* as they do when the loop stamps them from the wall clock, the timestamps
\* of the records of that key are non-decreasing in list order and the key's
\* last_time always equals the timestamp of its last record.
C19_TimestampsOrdered ==
    \A k \in DOMAIN violations :
        LET records == violations[k]
            n == Len(records)
        IN /\ n > 0
           /\ \A i \in 1..(n - 1) :
                  fromisoformat(records[i].timestamp)
                      <= fromisoformat(records[i + 1].timestamp)
           /\ fromisoformat(records[n].timestamp) <= now
           /\ k \in DOMAIN vehicle_states
           /\ vehicle_states[k].last_time = records[n].timestamp

C19_Witness ==
    \E k \in DOMAIN violations :
        /\ Len(violations[k]) = 2
        /\ fromisoformat(violations[k][1].timestamp)
               < fromisoformat(violations[k][2].timestamp)
        /\ vehicle_states[k].last_time = violations[k][2].timestamp
        /\ fromisoformat(vehicle_states[k].last_time) < now

\* C20: transform_points returns an empty result for an empty input without
\* raising, and for an input of n points returns, without raising, exactly n
\* points in the order of the input: the i-th result is the image of the
\* i-th input point.
C20_TransformKeepsCountAndOrder ==
    call.op = "transform_points"
    => LET out == ret[1]
       IN /\ ~out.error
          /\ Len(out.value) = Len(call.points)
          /\ call.points = <<>> => out.value = <<>>
          /\ \A i \in 1..Len(call.points) :
                 out.value[i] = Project(view_transformer_m, call.points[i])

C20_Witness ==
    /\ call.op = "transform_points"
    /\ Len(call.points) = 3
    /\ call.points[1] # call.points[3]
    /\ ~ret[1].error
    /\ ret[1].value[1] # ret[1].value[3]
    /\ view_transformer_m[3][2] = Big(1)
    /\ ret[1].value[2][2][2] = Big(3)

C20_WitnessEmpty ==
    /\ call.op = "transform_points"
    /\ call.points = <<>>
    /\ ret[1] = [error |-> FALSE, value |-> <<>>]

\* C21: a transformer built from (SOURCE, TARGET) takes each SOURCE corner
\* to the TARGET corner of the same index, wherever the corner stands in the
\* array of points; so the four SOURCE corners in order give the four TARGET
\* corners in order.  (Arithmetic is exact here, so the results are equal,
\* not only within a tolerance.)
C21_CornersToCorners ==
    (/\ call.op = "transform_points"
     /\ view_transformer_m = getPerspectiveTransform(SOURCE, TARGET))
    => /\ ~ret[1].error
       /\ Len(ret[1].value) = Len(call.points)
       /\ \A i \in 1..Len(call.points) : \A j \in 1..4 :
              call.points[i] = SOURCE[j]
              => /\ ret[1].value[i][1][2][1] = 1
                 /\ ret[1].value[i][2][2][1] = 1
                 /\ BigRatEq(ret[1].value[i][1],
                             BigRat(Big(TARGET[j][1]), Big(1)))
                 /\ BigRatEq(ret[1].value[i][2],
                             BigRat(Big(TARGET[j][2]), Big(1)))

C21_Witness ==
    /\ call.op = "transform_points"
    /\ view_transformer_m = getPerspectiveTransform(SOURCE, TARGET)
    /\ call.points = SOURCE
    /\ ~ret[1].error
    /\ Len(ret[1].value) = 4
    /\ BigRatEq(ret[1].value[3][1], BigRat(Big(24), Big(1)))
    /\ BigRatEq(ret[1].value[3][2], BigRat(Big(249), Big(1)))

\* C22: every emission for a key that has a state sets last_speed to the
\* measured speed, last_time to the timestamp and max_speed to the larger of
\* the previous max_speed and the speed; hence max_speed always equals the
\* largest measured speed of the key's emitted records, never decreases, and
\* is never lower than last_speed.
C22_MaxSpeedIsRunningMax ==
    /\ [](\A k \in DOMAIN vehicle_states :
              /\ k \in DOMAIN measured
              /\ Len(measured[k]) > 0
              /\ vehicle_states[k].last_speed = measured[k][Len(measured[k])]
              /\ \A i \in 1..Len(measured[k]) :
                     ~RLess(vehicle_states[k].max_speed, measured[k][i])
              /\ \E i \in 1..Len(measured[k]) :
                     vehicle_states[k].max_speed = measured[k][i]
              /\ ~RLess(vehicle_states[k].max_speed,
                        vehicle_states[k].last_speed))
    /\ [][\A k \in DOMAIN vehicle_states :
              /\ k \in DOMAIN vehicle_states'
              /\ ~RLess(vehicle_states'[k].max_speed,
                        vehicle_states[k].max_speed)
              /\ Len(violations'[k]) > Len(violations[k])
                     => /\ vehicle_states'[k].last_speed = call'.speed_kmh
                        /\ vehicle_states'[k].last_time = call'.timestamp
                        /\ vehicle_states'[k].max_speed
                               = IF RLess(vehicle_states[k].max_speed,
                                          call'.speed_kmh)
                                 THEN call'.speed_kmh
                                 ELSE vehicle_states[k].max_speed
         ]_vars

C22_Witness ==
    \E k \in DOMAIN vehicle_states :
        /\ Len(measured[k]) = 3
        /\ vehicle_states[k].max_speed = measured[k][2]
        /\ RLess(measured[k][1], measured[k][2])
        /\ RLess(measured[k][3], measured[k][2])
        /\ vehicle_states[k].last_speed = measured[k][3]

\* C23: whenever a speed is computed for a track, the oldest sample of its
\* buffer was appended at most fps-1 frames before the newest one, also when
\* the track was missing from the zone detections of frames in between, so
\* that sample_count / fps is the frame span of the window.
C23_WindowWithinOneSecond ==
    (/\ call.op = "zone_detection"
     /\ ~call.skipped
     /\ 2 * Len(call.window) >= fps)
    => call.window[Len(call.window)].frame - call.window[1].frame <= fps - 1

\* C24: for a finite detection stream the loop takes the frames one at a
\* time in stream order; every ledger, buffer and violation update is made
\* while its frame is the current one, so the updates of frame k come before
\* any update of frame k+1; the loop ends when the stream ends or, earlier,
\* on the quit key; then the final statistics are computed from the state as
\* the last processed frame left it, and the run ends.
C24_FramesInOrderThenFinalStatistics ==
    /\ <>(pc = "finished")
    /\ [][/\ frame_num' \in {frame_num, frame_num + 1}
          /\ frame_num' < StreamFrames
          /\ frame_num' = frame_num + 1
                 => (call'.op = "end_frame" /\ ~call'.quit /\ pc' = "count")
          /\ (call'.op = "end_frame" /\ call'.quit) => pc' = "done"
          /\ (analyzer_vars' # analyzer_vars \/ coordinates' # coordinates)
                 => /\ pc \in {"count", "zone"}
                    /\ frame_num' = frame_num
          /\ \A b \in DOMAIN samples' :
                 samples'[b] # ListOf(samples, b)
                 => samples'[b][Len(samples'[b])].frame = frame_num
          /\ pc \in {"done", "finished"}
                 => /\ analyzer_vars' = analyzer_vars
                    /\ coordinates' = coordinates
                    /\ frame_num' = frame_num
          /\ call'.op = "final_statistics"
                 => /\ pc = "done"
                    /\ pc' = "finished"
                    /\ call.op \in {"init", "end_frame"}
                    /\ ret'[1] = Statistics(ret'[1].processing_duration)
         ]_vars

C24_Witness ==
    /\ pc = "finished"
    /\ call.op = "final_statistics"
    /\ frame_num = SlowFrames - 1
    /\ Len(coordinates[1]) = SlowFrames
    /\ ret[1].total_vehicles_detected = 1
    /\ ret[1].vehicles_in_zone = 1
    /\ ret[1].total_unique_violations = 1
    /\ ret[1].processing_duration = 2 * SlowFrames

\* C25: after any sequence of calls the keys of vehicle_states are the keys
\* of violations, no key of violations has an empty list, and for every key
\* violation_count equals the length of its list and the violation_number of
\* its last record.
C25_StateMatchesHistory ==
    /\ DOMAIN vehicle_states = DOMAIN violations
    /\ \A k \in DOMAIN violations :
           /\ Len(violations[k]) > 0
           /\ k \in DOMAIN vehicle_states
           /\ vehicle_states[k].violation_count = Len(violations[k])
           /\ violations[k][Len(violations[k])].violation_number
                  = vehicle_states[k].violation_count

C25_Witness ==
    /\ Cardinality(DOMAIN vehicle_states) = 2
    /\ \E k \in DOMAIN violations : vehicle_states[k].violation_count = 3
    /\ \E k \in DOMAIN violations : vehicle_states[k].violation_count = 1

\* C26: at every frame boundary of the loop every key with a violation
\* record is in zone_vehicles_seen and every key of zone_vehicles_seen is in
\* all_vehicles_seen; hence a snapshot taken there, the final one included,
\* has vehicles_with_violations <= vehicles_in_zone <= total_vehicles_detected.
C26_ViolationsWithinZoneWithinAll ==
    (pc \in {"count", "done", "finished"})
    => /\ DOMAIN violations \subseteq zone_vehicles_seen
       /\ zone_vehicles_seen \subseteq all_vehicles_seen
       /\ LET stats == Statistics(now - StartClock)
          IN /\ stats.vehicles_with_violations <= stats.vehicles_in_zone
             /\ stats.vehicles_in_zone <= stats.total_vehicles_detected
       /\ pc = "finished"
              => /\ ret[1].vehicles_with_violations <= ret[1].vehicles_in_zone
                 /\ ret[1].vehicles_in_zone <= ret[1].total_vehicles_detected

C26_Witness ==
    /\ pc = "finished"
    /\ ret[1].vehicles_with_violations = 1
    /\ ret[1].vehicles_in_zone = 2
    /\ ret[1].total_vehicles_detected = 3

\* C27: every alert raised by record_violation belongs to a stored record of
\* the same vehicle whose speed_kmh field is > 100, so that is_speeding
\* (speed_kmh > 100) is true for every record that raised an alert.
C27_AlertsAgreeWithStored ==
    \A a \in 1..Len(alerts) :
        /\ alerts[a][4] > SPEED_LIMIT
        /\ \E k \in DOMAIN violations : \E i \in 1..Len(violations[k]) :
               /\ violations[k][i].tracker_id = alerts[a][3]
               /\ violations[k][i].class = alerts[a][2]
               /\ violations[k][i].speed_kmh = alerts[a][4]
               /\ violations[k][i].speed_kmh > SPEED_LIMIT

\* C28: for any two consecutive records of one key the measured speeds
\* differ by more than 10 or the timestamps differ by more than 5 seconds,
\* and the same holds for the stored integer speed_kmh fields.
C28_ConsecutiveRecordsApart ==
    \A k \in DOMAIN violations : \A i \in 1..(Len(violations[k]) - 1) :
        LET dt == fromisoformat(violations[k][i + 1].timestamp)
                  - fromisoformat(violations[k][i].timestamp)
        IN /\ \/ RLess(FromInt(SpeedDiffThreshold),
                       RAbsDiff(measured[k][i + 1], measured[k][i]))
              \/ dt > TimeDiffThreshold
           /\ \/ Abs(violations[k][i + 1].speed_kmh
                     - violations[k][i].speed_kmh) > SpeedDiffThreshold
              \/ dt > TimeDiffThreshold

\* C28 as the code has it: for any two consecutive records of one key the
\* measured speeds differ by more than 10 or the later timestamp is more
\* than 5 seconds after the earlier one; the stored integer speed_kmh fields
\* then differ by at least 10, and can differ by exactly 10, or the
\* timestamps are more than 5 seconds apart.
C28_ConsecutiveRecordsApartMeasured ==
    \A k \in DOMAIN violations : \A i \in 1..(Len(violations[k]) - 1) :
        LET dt == fromisoformat(violations[k][i + 1].timestamp)
                  - fromisoformat(violations[k][i].timestamp)
        IN /\ \/ RLess(FromInt(SpeedDiffThreshold),
                       RAbsDiff(measured[k][i + 1], measured[k][i]))
              \/ dt > TimeDiffThreshold
           /\ \/ Abs(violations[k][i + 1].speed_kmh
                     - violations[k][i].speed_kmh) >= SpeedDiffThreshold
              \/ dt > TimeDiffThreshold

C28_Witness ==
    \E k \in DOMAIN violations : \E i \in 1..(Len(violations[k]) - 1) :
        /\ Abs(violations[k][i + 1].speed_kmh - violations[k][i].speed_kmh)
               = SpeedDiffThreshold
        /\ RLess(FromInt(SpeedDiffThreshold),
                 RAbsDiff(measured[k][i + 1], measured[k][i]))
        /\ Abs(fromisoformat(violations[k][i + 1].timestamp)
               - fromisoformat(violations[k][i].timestamp))
               <= TimeDiffThreshold

\* C29: every stored violation record has speed_kmh >= 5, an integer not
\* greater than the measured speed; hence the statistics returned when
\* there is at least one record have max_speed >= 5, avg_speed >= 5 and
\* max_speed >= avg_speed.
C29_StoredSpeedsAtLeastFive ==
    /\ \A k \in DOMAIN violations : \A i \in 1..Len(violations[k]) :
           /\ violations[k][i].speed_kmh >= NoiseFloor
           /\ ~RLess(measured[k][i], FromInt(violations[k][i].speed_kmh))
    /\ (call.op = "get_statistics" /\ ret[1].total_unique_violations > 0)
       => /\ ret[1].max_speed >= NoiseFloor
          /\ ~RLess(ret[1].avg_speed, FromInt(NoiseFloor))
          /\ ~RLess(FromInt(ret[1].max_speed), ret[1].avg_speed)

C29_Witness ==
    /\ call.op = "get_statistics"
    /\ ret[1].total_unique_violations = 2
    /\ ret[1].avg_speed = <<105, 2>>
    /\ ret[1].max_speed = 100
    /\ \E k \in DOMAIN measured : \E i \in 1..Len(measured[k]) :
           measured[k][i] = <<201, 2>>
    /\ \E k \in DOMAIN measured : \E i \in 1..Len(measured[k]) :
           measured[k][i] = <<5, 1>>

\* C30: when send_email_with_documents returns, none of the files it
\* generated (the two TXT reports, the HTML report, the JSON data file) is
\* on disk, whatever the outcome.
C30_NoTempFilesLeft ==
    pc = "emailed" => disk \cap TempFiles = {}

====
